---- MODULE Spec2Model ----
(***************************************************************************)
(* A model of the request-time core of the RAG pipeline:                   *)
(*   - VectorStore.hybrid_search / add_documents (RetrievalFusion),        *)
(*   - CacheService (SemanticCache) over the Redis response keys,          *)
(*   - DriftDetector.record_query and RoutingService.analyze_complexity    *)
(*     as RAGService.query calls them,                                     *)
(*   - RAGService.query, the orchestration of one query,                   *)
(*   - DriftDetector.detect_drift, and record_query, add_documents and     *)
(*     hybrid_search statement by statement for threads running together.  *)
(*                                                                         *)
(* Conventions.  A string the code takes apart (a domain name, a Redis     *)
(* key, a glob pattern) is a sequence of one-character strings; a question *)
(* is the sequence of its words and of the blanks between them.  Python's  *)
(* None for a domain is the empty sequence: the code tests a domain only   *)
(* by `domain or 'general'` and `if domain`, which treat None and "" alike.*)
(* Real numbers are exact scaled integers: alpha is in tenths, the         *)
(* similarity 1/(1+d) is SimScale/(1+d), a cosine similarity is the pair   *)
(* of the dot product and the product of the squared norms.                *)
(***************************************************************************)
EXTENDS Integers, Sequences, FiniteSets, TLC

VARIABLES
    collection,       \* VectorStore: ids held by the Chroma collection, in insertion order
    documents_cache,  \* VectorStore.documents_cache: the documents of the last rebuild
    bm25,             \* VectorStore.bm25: the documents the BM25 index was built from, <<>> = None
    vs_out,           \* the hybrid_search call a caller of VectorStore has made, or Idle
    redis,            \* the Redis response keys: key -> the value and expiry set by setex
    redis_up,         \* whether the Redis server can be reached
    now,              \* the time, in seconds
    cache_out,        \* the last CacheService call and what it returned
    invalidated,      \* history: the domains invalidated and not stored under since
    query_data,       \* DriftDetector.query_data: domain -> list of (timestamp, length)
    llm_service,      \* the object bound to the name llm_service in rag_service
    q,                \* RAGService.query: the call in progress, its position and locals
    route_out,        \* the analyze_complexity call a caller of RoutingService has made last
    first_call,       \* history: one earlier analyze_complexity call and its decision
    drift_out,        \* the last detect_drift call: its windows and the dict it returned
    th                \* the threads inside a method: thread -> its position and locals

vsVars == <<collection, documents_cache, bm25, vs_out>>
cacheVars == <<redis, redis_up, now, cache_out, invalidated>>
ragVars == <<query_data, llm_service, q>>
routeVars == <<route_out, first_call>>
driftVars == <<drift_out, th>>
vars == <<collection, documents_cache, bm25, vs_out, redis, redis_up, now, cache_out,
          invalidated, query_data, llm_service, q, route_out, first_call, drift_out, th>>

----------------------------------------------------------------------------
(* Strings and small helpers *)

Str_hr == <<"h", "r">>
Str_hrx == <<"h", "r", ":", "x">>
Str_legal == <<"l", "e", "g", "a", "l">>
Str_engineering == <<"e", "n", "g", "i", "n", "e", "e", "r", "i", "n", "g">>
Str_general == <<"g", "e", "n", "e", "r", "a", "l">>
Str_all == <<"a", "l", "l">>
Str_response == <<"r", "e", "s", "p", "o", "n", "s", "e">>
NoDomain == <<>>

Range(s) == {s[i] : i \in 1..Len(s)}

Min(a, b) == IF a <= b THEN a ELSE b

Take(s, n) == SubSeq(s, 1, Min(n, Len(s)))

IndexOf(s, x) == CHOOSE i \in 1..Len(s) : s[i] = x

Perms(S) ==
    {s \in [1..Cardinality(S) -> S] : \A i, j \in 1..Cardinality(S) : i < j => s[i] # s[j]}

RECURSIVE Product(_)
Product(S) == IF S = {} THEN 1
              ELSE LET x == CHOOSE y \in S : TRUE IN x * Product(S \ {x})

\* `domain or 'general'`
OrGeneral(domain) == IF domain = NoDomain THEN Str_general ELSE domain

----------------------------------------------------------------------------
(* VectorStore (src/api/services/vector_store.py) *)

MaxChunks == 3

\* the metadata 'domain' a chunk was ingested with
DomainOf(c) == IF c % 2 = 1 THEN Str_hr ELSE Str_general

Distances == {0, 1, 3}
LexScores == {0, 2}
TopKs == {1, 2}
Alphas == {0, 5, 7, 10}
Filters == {NoDomain, Str_hr, Str_general}

SimScale == Product({1 + d : d \in Distances})

\* similarity = 1 / (1 + distance), times SimScale
Similarity(distance) == SimScale \div (1 + distance)

Idle == [path |-> "idle"]

\* collection.query(query_embeddings, n_results, where): the ids matching the
\* filter, nearest first (equal distances in any order), at most n_results of them
Matching(filter) ==
    {c \in Range(collection) : filter = NoDomain \/ DomainOf(c) = filter}

VectorResults(dist, n_results, filter) ==
    LET M == Matching(filter)
        m == Min(n_results, Cardinality(M))
    IN {s \in [1..m -> M] :
          /\ \A i, j \in 1..m : i < j => s[i] # s[j] /\ dist[s[i]] <= dist[s[j]]
          /\ \A c \in M \ Range(s) : \A i \in 1..m : dist[s[i]] <= dist[c]}

\* _rebuild_bm25_index: documents_cache = collection.get()['documents'];
\* bm25 = None when there is none, else BM25Okapi over them
RebuiltCache == collection
RebuiltBm25 == IF collection = <<>> THEN <<>> ELSE collection

\* bm25.get_scores(tokenized_query): one score per indexed document, in the
\* order of the index; lex[c] is the BM25 score of chunk c for the query
Bm25Scores(index, lex) == [i \in 1..Len(index) |-> lex[index[i]]]

\* combined_scores after the two loops of lines 92-106, as a function on the
\* shortlist's ids: alpha * similarity, plus (1 - alpha) * score for the
\* pairs of zip(vector_results['ids'][0], bm25_scores)
VectorPart(alpha, dist, doc_id) == alpha * Similarity(dist[doc_id])

\* (a slip of the weight: alpha where the code has 1 - alpha)
Bm25Part_WeightAlpha(alpha, shortlist, bm25_scores, doc_id) ==
    LET idx == IndexOf(shortlist, doc_id)
    IN IF idx <= Len(bm25_scores)
       THEN alpha * bm25_scores[idx] * SimScale
       ELSE 0

Bm25Part(alpha, shortlist, bm25_scores, doc_id) ==
    LET idx == IndexOf(shortlist, doc_id)
    IN IF idx <= Len(bm25_scores)
       THEN (10 - alpha) * bm25_scores[idx] * SimScale
       ELSE 0

CombinedScores(alpha, dist, shortlist, bm25_scores) ==
    [doc_id \in Range(shortlist) |->
        VectorPart(alpha, dist, doc_id)
        + Bm25Part(alpha, shortlist, bm25_scores, doc_id)]

\* sorted(items, key=score, reverse=True): a stable sort, equal scores keep
\* the order of the input
RECURSIVE InsertDesc(_, _, _)
InsertDesc(sorted, x, score) ==
    IF sorted = <<>> THEN <<x>>
    ELSE IF score[Head(sorted)] >= score[x]
         THEN <<Head(sorted)>> \o InsertDesc(Tail(sorted), x, score)
         ELSE <<x>> \o sorted

RECURSIVE SortedDesc(_, _)
SortedDesc(s, score) ==
    IF s = <<>> THEN <<>>
    ELSE InsertDesc(SortedDesc(SubSeq(s, 1, Len(s) - 1), score), s[Len(s)], score)

\* (the slice [:top_k] forgotten)
FinalIds_NoSlice(shortlist, combined, top_k) == SortedDesc(shortlist, combined)

\* sorted(...)[:top_k], then the ids
FinalIds(shortlist, combined, top_k) == Take(SortedDesc(shortlist, combined), top_k)

\* lines 77-113 of hybrid_search once the vector index has answered with
\* `shortlist`: the rebuild when there is no index, the fallback when there
\* is still none, else the fusion. The ranking is final_ids, the ids handed to
\* collection.get, which is taken to answer in the order asked.
HybridOutcome(top_k, filter, alpha, dist, lex, shortlist) ==
    LET cache1 == IF bm25 = <<>> THEN RebuiltCache ELSE documents_cache
        bm1 == IF bm25 = <<>> THEN RebuiltBm25 ELSE bm25
        scores == Bm25Scores(bm1, lex)
        combined == CombinedScores(alpha, dist, shortlist, scores)
    IN [documents_cache |-> cache1,
        bm25 |-> bm1,
        out |-> IF bm1 = <<>>
                THEN [path |-> "fallback", top_k |-> top_k, filter |-> filter,
                      alpha |-> alpha, dist |-> dist, lex |-> lex,
                      shortlist |-> shortlist, combined |-> <<>>,
                      final_ids |-> shortlist]
                ELSE [path |-> "hybrid", top_k |-> top_k, filter |-> filter,
                      alpha |-> alpha, dist |-> dist, lex |-> lex,
                      shortlist |-> shortlist, combined |-> combined,
                      final_ids |-> FinalIds(shortlist, combined, top_k)]]

\* add_documents(documents, metadatas, ids): collection.add, then the rebuild
AddDocuments(k) ==
    /\ vs_out = Idle
    /\ Len(collection) + k <= MaxChunks
    /\ collection' = collection \o [i \in 1..k |-> Len(collection) + i]
    /\ documents_cache' = collection'
    /\ bm25' = collection'
    /\ UNCHANGED vs_out

\* hybrid_search(query, top_k, filter, alpha); the query is given by the
\* distance dist[c] of its embedding to each chunk and by its BM25 score
\* lex[c] against each chunk
HybridSearch(top_k, filter, alpha, dist, lex) ==
    /\ vs_out = Idle
    /\ \E shortlist \in VectorResults(dist, top_k * 2, filter) :
         LET r == HybridOutcome(top_k, filter, alpha, dist, lex, shortlist)
         IN /\ documents_cache' = r.documents_cache
            /\ bm25' = r.bm25
            /\ vs_out' = r.out
    /\ UNCHANGED collection

\* the caller takes the result
SearchReturn ==
    /\ vs_out # Idle
    /\ vs_out' = Idle
    /\ UNCHANGED <<collection, documents_cache, bm25>>

VsInit ==
    /\ collection = <<>>
    /\ documents_cache = <<>>
    /\ bm25 = <<>>
    /\ vs_out = Idle

(* add_documents and hybrid_search statement by statement, for a thread t: *)
(* neither takes a lock, and self.bm25 is read again at every use.         *)

\* the query every thread of the step model asks: top_k, alpha, the distance
\* and the BM25 score of each chunk
StepQuery ==
    [top_k |-> 1, alpha |-> 5,
     dist |-> [c \in 1..(MaxChunks + 1) |-> IF c = 1 THEN 1 ELSE 0],
     lex |-> [c \in 1..(MaxChunks + 1) |-> IF c = 1 THEN 2 ELSE 0]]

\* add_documents, lines 40-47: collection.add of one chunk; the rebuild follows
AddStep(t) ==
    /\ th[t].pc = "idle"
    /\ Len(collection) < MaxChunks
    /\ collection' = Append(collection, Len(collection) + 1)
    /\ th' = [th EXCEPT ![t] = [pc |-> "get", op |-> "add", ret |-> "done",
                                all_docs |-> <<>>, shortlist |-> <<>>,
                                result |-> Idle]]
    /\ UNCHANGED <<documents_cache, bm25, vs_out, drift_out, cacheVars, ragVars, routeVars>>

\* _rebuild_bm25_index, line 54: all_docs = self.collection.get()
RebuildGet(t) ==
    /\ th[t].pc = "get"
    /\ th' = [th EXCEPT ![t].pc = "cache", ![t].all_docs = collection]
    /\ UNCHANGED <<vsVars, drift_out, cacheVars, ragVars, routeVars>>

\* line 55: self.documents_cache = all_docs['documents']
RebuildCache(t) ==
    /\ th[t].pc = "cache"
    /\ documents_cache' = th[t].all_docs
    /\ th' = [th EXCEPT ![t].pc = "index"]
    /\ UNCHANGED <<collection, bm25, vs_out, drift_out, cacheVars, ragVars, routeVars>>

\* lines 57-62: self.bm25 = None for no document, else the index built from
\* self.documents_cache as it is now; then the return to the caller
RebuildIndex(t) ==
    /\ th[t].pc = "index"
    /\ bm25' = documents_cache
    /\ th' = [th EXCEPT ![t].pc = th[t].ret]
    /\ UNCHANGED <<collection, documents_cache, vs_out, drift_out, cacheVars, ragVars,
                   routeVars>>

\* hybrid_search, lines 70-75: the vector index answers with the shortlist
SearchQuery(t) ==
    /\ th[t].pc = "idle"
    /\ \E shortlist \in VectorResults(StepQuery.dist, StepQuery.top_k * 2, NoDomain) :
         th' = [th EXCEPT ![t] = [pc |-> "check", op |-> "search", ret |-> "recheck",
                                 all_docs |-> <<>>, shortlist |-> shortlist,
                                 result |-> Idle]]
    /\ UNCHANGED <<vsVars, drift_out, cacheVars, ragVars, routeVars>>

\* lines 78-79: if self.bm25 is None, the rebuild
SearchCheck(t) ==
    /\ th[t].pc = "check"
    /\ th' = [th EXCEPT ![t].pc = IF bm25 = <<>> THEN "get" ELSE "recheck"]
    /\ UNCHANGED <<vsVars, drift_out, cacheVars, ragVars, routeVars>>

\* lines 81-83: if self.bm25 is None, the vector-only results are returned
SearchRecheck(t) ==
    /\ th[t].pc = "recheck"
    /\ th' = IF bm25 = <<>>
             THEN [th EXCEPT ![t].pc = "done",
                             ![t].result = [path |-> "fallback",
                                            final_ids |-> th[t].shortlist]]
             ELSE [th EXCEPT ![t].pc = "score"]
    /\ UNCHANGED <<vsVars, drift_out, cacheVars, ragVars, routeVars>>

\* lines 85-113: self.bm25.get_scores, an AttributeError when self.bm25 is
\* None by now, else the fusion against that index and the top_k ids
SearchScore(t) ==
    /\ th[t].pc = "score"
    /\ th' = IF bm25 = <<>>
             THEN [th EXCEPT ![t].pc = "done",
                             ![t].result = [path |-> "raised",
                                            error |-> "AttributeError"]]
             ELSE LET combined == CombinedScores(StepQuery.alpha, StepQuery.dist, th[t].shortlist,
                                                 Bm25Scores(bm25, StepQuery.lex))
                  IN [th EXCEPT ![t].pc = "done",
                                ![t].result =
                                    [path |-> "hybrid", index |-> bm25,
                                     final_ids |-> FinalIds(th[t].shortlist, combined,
                                                            StepQuery.top_k)]]
    /\ UNCHANGED <<vsVars, drift_out, cacheVars, ragVars, routeVars>>

----------------------------------------------------------------------------
(* CacheService (src/api/services/cache_service.py) *)

response_ttl == 3600
ScanLimit == 100

MaxKeys == 2
MaxTicks == 3

\* redis KEYS pattern matching (glob style) of a pattern against a key; the
\* alphabet of the model has the wildcards * and ? and no [ or \
RECURSIVE GlobMatch(_, _)
GlobMatch(pattern, string) ==
    IF pattern = <<>> THEN string = <<>>
    ELSE IF Head(pattern) = "*"
         THEN GlobMatch(Tail(pattern), string)
              \/ (string # <<>> /\ GlobMatch(pattern, Tail(string)))
    ELSE IF string = <<>> THEN FALSE
    ELSE IF Head(pattern) = "?" THEN GlobMatch(Tail(pattern), Tail(string))
    ELSE Head(pattern) = Head(string) /\ GlobMatch(Tail(pattern), Tail(string))

\* _generate_key(f"{domain}:{query}", "response"): "response:" and the hex
\* digest of the text; the 64 hex digits are the one symbol "#"
GeneratedKey == Str_response \o <<":", "#">>

\* the Redis key of set_response, f"response:{domain}:{key}". Two keys are the
\* same key when domain and query are the same (the digest tells the queries
\* apart): the model names a key <<domain, query>> and spells it RedisKey(domain)
RedisKey(domain) == Str_response \o <<":">> \o domain \o <<":">> \o GeneratedKey

\* pattern = f"response:{domain}:*"
ResponsePattern(domain) == Str_response \o <<":">> \o domain \o <<":", "*">>

\* the keys Redis holds at this time: a key is gone once its time is up
LiveKeys == {k \in DOMAIN redis : now <= redis[k].expires_at}

\* self.redis.keys(pattern), as a set
KeysMatching(domain) ==
    {k \in LiveKeys : GlobMatch(ResponsePattern(domain), RedisKey(k[1]))}

\* _cosine_similarity: np.dot(vec1, vec2) / (norm(vec1) * norm(vec2)), kept as
\* the dot product and the product of the squared norms; nn = 0 is nan
CosineSimilarity(vec1, vec2) ==
    [dot |-> vec1[1] * vec2[1] + vec1[2] * vec2[2],
     nn |-> (vec1[1] * vec1[1] + vec1[2] * vec1[2]) * (vec2[1] * vec2[1] + vec2[2] * vec2[2])]

ZeroSimilarity == [dot |-> 0, nn |-> 1]

\* a > b for two similarities (false when either is nan)
SimGreater(a, b) ==
    /\ a.nn > 0 /\ b.nn > 0
    /\ IF a.dot >= 0 /\ b.dot >= 0 THEN a.dot * a.dot * b.nn > b.dot * b.dot * a.nn
       ELSE IF a.dot < 0 /\ b.dot < 0 THEN a.dot * a.dot * b.nn < b.dot * b.dot * a.nn
       ELSE a.dot >= 0

\* similarity >= self.similarity_threshold, 0.95: the square of 0.95 is 361/400
AtLeastThreshold(a) ==
    a.nn > 0 /\ a.dot > 0 /\ 400 * a.dot * a.dot >= 361 * a.nn

NoMatch == [found |-> FALSE, similarity |-> ZeroSimilarity]

\* the loop of find_similar_response over keys[:100], from best_match = None
\* and best_similarity = 0.0: one key is one pass of the body, and a longer
\* list is its first half and then, from the best so far, its second half
RECURSIVE ScanKeys(_, _, _)
ScanKeys(keys, query_embedding, best) ==
    IF keys = <<>> THEN best
    ELSE IF Len(keys) = 1
    THEN LET key == Head(keys)
             data == redis[key]
             similarity == CosineSimilarity(query_embedding, data.query_embedding)
         IN IF SimGreater(similarity, best.similarity) /\ AtLeastThreshold(similarity)
            THEN [found |-> TRUE, similarity |-> similarity,
                  response |-> data.response, key |-> key]
            ELSE best
    ELSE LET half == Len(keys) \div 2
             first == ScanKeys(SubSeq(keys, 1, half), query_embedding, best)
         IN IF first.found
            THEN ScanKeys(SubSeq(keys, half + 1, Len(keys)), query_embedding, first)
            ELSE ScanKeys(SubSeq(keys, half + 1, Len(keys)), query_embedding, best)

Miss == [hit |-> FALSE]

\* find_similar_response(query, query_embedding, domain), with the order in
\* which KEYS listed the keys: None (Miss) or (response, similarity); the key
\* the response came from is kept for the properties
FindSimilarResponse(query_embedding, domain, keys) ==
    IF keys = <<>> THEN Miss
    ELSE LET best == ScanKeys(Take(keys, ScanLimit), query_embedding, NoMatch)
         IN IF best.found /\ best.response # ""   \* `if best_match:`
            THEN [hit |-> TRUE, response |-> best.response,
                  similarity |-> best.similarity, key |-> best.key]
            ELSE Miss

\* (the embedding TTL of 24 hours given to a response)
ResponseExpiry_EmbeddingTtl(t) == t + 86400

\* setex(key, self.response_ttl, ...) at time t
ResponseExpiry(t) == t + response_ttl

\* the key space after setex(f"response:{domain}:{key}", response_ttl, data)
AfterSetex(query, query_embedding, response, domain) ==
    LET key == <<domain, query>>
        data == [query |-> query, query_embedding |-> query_embedding,
                 response |-> response, domain |-> domain,
                 stored_at |-> now, expires_at |-> ResponseExpiry(now)]
    IN [k \in LiveKeys \cup {key} |-> IF k = key THEN data ELSE redis[k]]

\* set_response(query, query_embedding, response, domain)
SetResponse(query, query_embedding, response, domain) ==
    /\ redis_up
    /\ <<domain, query>> \in LiveKeys \/ Cardinality(LiveKeys) < MaxKeys
    /\ redis' = AfterSetex(query, query_embedding, response, domain)
    /\ cache_out' = [op |-> "store", query |-> query, query_embedding |-> query_embedding,
                     response |-> response, domain |-> domain]
    /\ invalidated' = invalidated \ {domain}
    /\ UNCHANGED <<now, redis_up>>

\* a call of find_similar_response; `after` is the set_response it follows
\* immediately, if it does
Lookup(query_embedding, domain) ==
    /\ redis_up
    /\ \E keys \in Perms(KeysMatching(domain)) :
         cache_out' = [op |-> "lookup", query_embedding |-> query_embedding,
                       domain |-> domain,
                       after |-> IF cache_out.op = "store" THEN cache_out
                                 ELSE [op |-> "other"],
                       result |-> FindSimilarResponse(query_embedding, domain, keys)]
    /\ UNCHANGED <<redis, now, invalidated, redis_up>>

\* invalidate_domain(domain)
InvalidateDomain(domain) ==
    /\ redis_up
    /\ redis' = [k \in LiveKeys \ KeysMatching(domain) |-> redis[k]]
    /\ cache_out' = [op |-> "invalidate", domain |-> domain]
    /\ invalidated' = invalidated \cup {domain}
    /\ UNCHANGED <<now, redis_up>>

\* half an hour passes
Advance ==
    /\ now < MaxTicks * 1800
    /\ now' = now + 1800
    /\ cache_out' = [op |-> "none"]
    /\ UNCHANGED <<redis, invalidated, redis_up>>

CacheInit ==
    /\ redis = <<>>
    /\ redis_up = TRUE
    /\ now = 0
    /\ cache_out = [op |-> "none"]
    /\ invalidated = {}

----------------------------------------------------------------------------
(* DriftDetector.record_query (src/api/monitoring/drift_detector.py) *)

MaxSamples == 2

\* len(query.split()): the maximal runs without a blank
WordCount(query) ==
    Cardinality({i \in 1..Len(query) :
                   query[i] # " " /\ (i = 1 \/ query[i - 1] = " ")})

\* record_query(query, domain) at time t: nothing for an empty query, else
\* the append and the cleanup that keeps the samples newer than 30 days
RecordQuery(data, query, domain, t) ==
    IF query = <<>> THEN data
    ELSE LET old == IF domain \in DOMAIN data THEN data[domain] ELSE <<>>
             appended == Append(old, <<t, WordCount(query)>>)
             cutoff == t - 30 * 86400
             kept == SelectSeq(appended, LAMBDA d : d[1] > cutoff)
         IN [d \in DOMAIN data \cup {domain} |-> IF d = domain THEN kept ELSE data[d]]

TotalSamples ==
    LET RECURSIVE Sum(_)
        Sum(S) == IF S = {} THEN 0
                  ELSE LET d == CHOOSE x \in S : TRUE
                       IN Len(query_data[d]) + Sum(S \ {d})
    IN Sum(DOMAIN query_data)

MaxEpochs == 2

\* a caller calls record_query(query, domain)
DriftRecord(query, domain) ==
    /\ TotalSamples < MaxSamples
    /\ query_data' = RecordQuery(query_data, query, domain, now)
    /\ UNCHANGED <<llm_service, q, routeVars, driftVars, vsVars, cacheVars>>

\* sixteen days pass
DriftAdvance ==
    /\ now < MaxEpochs * 16 * 86400
    /\ now' = now + 16 * 86400
    /\ UNCHANGED <<redis, redis_up, cache_out, invalidated, ragVars, routeVars, driftVars, vsVars>>

(* DriftDetector.detect_drift *)

\* no call has been made
NoCall == [op |-> "none"]

\* no detect_drift call has been made and no thread is inside a method
DriftInit ==
    /\ drift_out = NoCall
    /\ th = <<>>

window_days == 7
min_samples == 30

\* the positions of the samples of the current window: ts >= current_start
CurrentIdx(data, t) ==
    {i \in 1..Len(data) : data[i][1] >= t - window_days * 86400}

\* those of the previous window: previous_start <= ts < current_start
PreviousIdx(data, t) ==
    {i \in 1..Len(data) : /\ t - 2 * window_days * 86400 <= data[i][1]
                          /\ data[i][1] < t - window_days * 86400}

\* [length for ts, length in data if ...]: the lengths at these positions, in order
WindowLengths(data, idx) ==
    LET pos == SelectSeq([i \in 1..Len(data) |-> i], LAMBDA i : i \in idx)
    IN [k \in 1..Len(pos) |-> data[pos[k]][2]]

\* (both windows short, where the code has either)
Insufficient_BothShort(current, previous) ==
    Len(current) < min_samples /\ Len(previous) < min_samples

\* len(current_window_lengths) < min_samples or len(previous_window_lengths) < min_samples
Insufficient(current, previous) ==
    Len(current) < min_samples \/ Len(previous) < min_samples

\* the statistic of ks_2samp(a, b): the largest distance between the two
\* empirical distribution functions, as <<numerator, Len(a) * Len(b)>>
KsStatistic(a, b) ==
    LET Below(s, x) == Cardinality({i \in 1..Len(s) : s[i] <= x})
        gaps == {LET g == Below(a, x) * Len(b) - Below(b, x) * Len(a)
                 IN IF g < 0 THEN -g ELSE g : x \in Range(a) \cup Range(b)}
    IN <<CHOOSE g \in gaps : \A h \in gaps : h <= g, Len(a) * Len(b)>>

\* (a test that never rejects)
PValueBelowAlpha_Never(a, b) == {FALSE}

\* the outcomes of p_value < 0.05 for the p-value of ks_2samp(a, b), both
\* samples holding min_samples values or more: the p-value is 1 for equal
\* distribution functions (statistic 0) and at most 2 / C(60, 30) for
\* separated samples (statistic 1); between the two it is left open
PValueBelowAlpha(a, b) ==
    LET d == KsStatistic(a, b)
    IN IF d[1] = 0 THEN {FALSE}
       ELSE IF d[1] = d[2] THEN {TRUE}
       ELSE BOOLEAN

\* (self.query_data[domain], which makes a defaultdict create the entry)
DataAfterDetect_Subscript(data, domain) ==
    [d \in DOMAIN data \cup {domain} |-> IF d \in DOMAIN data THEN data[d] ELSE <<>>]

\* self.query_data.get(domain, []) leaves the dictionary as it is
DataAfterDetect(data, domain) == data

\* the dict detect_drift returns, lines 69-94, for the two windows and the
\* outcome `below` of p_value < 0.05; a mean is <<sum, count>>
DetectResult(current, previous, below) ==
    LET RECURSIVE Sum(_)
        Sum(s) == IF s = <<>> THEN 0 ELSE Head(s) + Sum(Tail(s))
    IN IF Insufficient(current, previous)
       THEN [drift_detected |-> FALSE, reason |-> "Insufficient data",
             current_samples |-> Len(current), previous_samples |-> Len(previous)]
       ELSE [drift_detected |-> below,
             p_value |-> [below_alpha |-> below],
             statistic |-> KsStatistic(current, previous),
             current_mean_length |-> <<Sum(current), Len(current)>>,
             previous_mean_length |-> <<Sum(previous), Len(previous)>>,
             current_samples |-> Len(current), previous_samples |-> Len(previous)]

\* a caller calls detect_drift(domain)
DetectDrift(domain) ==
    /\ drift_out = NoCall
    /\ LET data == IF domain \in DOMAIN query_data THEN query_data[domain] ELSE <<>>
           current == WindowLengths(data, CurrentIdx(data, now))
           previous == WindowLengths(data, PreviousIdx(data, now))
       IN \E below \in (IF Insufficient(current, previous) THEN {FALSE}
                         ELSE PValueBelowAlpha(current, previous)) :
            drift_out' = [op |-> "detect", domain |-> domain, before |-> query_data,
                          current |-> current, previous |-> previous,
                          result |-> DetectResult(current, previous, below)]
    /\ query_data' = DataAfterDetect(query_data, domain)
    /\ UNCHANGED <<llm_service, q, th, routeVars, vsVars, cacheVars>>

(* record_query statement by statement: the method takes no lock, so a    *)
(* thread can be between two of its statements while another one runs.    *)

MaxThreads == 2

Threads == 1..MaxThreads

\* lines 28-34: the return for an empty query, else the append to the list
RecordAppend(t, query, domain) ==
    /\ th[t].pc = "idle"
    /\ IF query = <<>>
       THEN /\ th' = [th EXCEPT ![t] = [pc |-> "done", domain |-> domain, sample |-> FALSE]]
            /\ UNCHANGED query_data
       ELSE /\ query_data' =
                 [d \in DOMAIN query_data \cup {domain} |->
                    IF d = domain
                    THEN Append(IF d \in DOMAIN query_data THEN query_data[d] ELSE <<>>,
                                <<now, WordCount(query)>>)
                    ELSE query_data[d]]
            /\ th' = [th EXCEPT ![t] = [pc |-> "filter", domain |-> domain, sample |-> TRUE]]
    /\ UNCHANGED <<llm_service, q, drift_out, routeVars, vsVars, cacheVars>>

\* lines 38-41, right-hand side: the comprehension reads the list and builds a new one
RecordFilter(t) ==
    /\ th[t].pc = "filter"
    /\ th' = [th EXCEPT ![t] =
                [pc |-> "assign", domain |-> th[t].domain, sample |-> TRUE,
                 kept |-> SelectSeq(query_data[th[t].domain],
                                    LAMBDA d : d[1] > now - 30 * 86400)]]
    /\ UNCHANGED <<query_data, llm_service, q, drift_out, routeVars, vsVars, cacheVars>>

\* line 39, the store: the new list replaces the one in the dictionary
RecordAssign(t) ==
    /\ th[t].pc = "assign"
    /\ query_data' = [query_data EXCEPT ![th[t].domain] = th[t].kept]
    /\ th' = [th EXCEPT ![t] = [pc |-> "done", domain |-> th[t].domain, sample |-> TRUE]]
    /\ UNCHANGED <<llm_service, q, drift_out, routeVars, vsVars, cacheVars>>

----------------------------------------------------------------------------
(* RoutingService.analyze_complexity (src/api/services/routing_service.py) *)

\* A query text is the sequence of its tokens and blanks: a plain word
\* ("w1", "w2"), a word of the conditional class, a word holding a technical
\* indicator, the marks "." and "?", the blank " ".
ConditionalWords == {"if", "when", "unless", "provided", "assuming"}
TechnicalIndicators == {"algorithm", "statute"}
Terminators == {".", "?"}

\* len(word_tokenize(query.lower())): the words and the marks, each mark a token
TokenCount(query) == Cardinality({i \in 1..Len(query) : query[i] # " "})

\* len(sent_tokenize(query)): a sentence ends at a mark followed by a blank
\* and more text
SentenceCount(query) ==
    IF TokenCount(query) = 0 THEN 0
    ELSE 1 + Cardinality({i \in 1..(Len(query) - 2) :
                            /\ query[i] \in Terminators
                            /\ query[i + 1] = " "
                            /\ query[i + 2] \notin Terminators \cup {" "}})

\* the features of lines 61-72
FeaturesOf(query) ==
    [word_count |-> TokenCount(query),
     sentence_count |-> SentenceCount(query),
     has_technical_terms |-> \E i \in 1..Len(query) : query[i] \in TechnicalIndicators,
     has_multiple_questions |-> Cardinality({i \in 1..Len(query) : query[i] = "?"}) > 1,
     has_conditional |-> \E i \in 1..Len(query) : query[i] \in ConditionalWords]

B2I(b) == IF b THEN 1 ELSE 0

\* (the engineering override forgotten)
ComplexThreshold_NoOverride(domain) == 50

\* config = self.domain_routing.get(domain, self.domain_routing['general']),
\* then config['complex_threshold']
ComplexThreshold(domain) ==
    IF domain = Str_hr THEN 100 ELSE IF domain = Str_engineering THEN 75 ELSE 50

\* (the conditional language not looked at)
LegalTier_IgnoresConditional(f) ==
    IF f.word_count < 20
    THEN [tier |-> "lite", reason |-> <<"Simple legal query">>]
    ELSE [tier |-> "pro", reason |-> <<"Complex legal query">>]

\* lines 78-85
LegalTier(f) ==
    IF f.word_count < 20 /\ ~f.has_conditional
    THEN [tier |-> "lite", reason |-> <<"Simple legal query">>]
    ELSE [tier |-> "pro", reason |-> <<"Complex legal query">>]

\* (and where the code has or)
HrTier_Both(f) ==
    IF f.word_count > 100 /\ f.has_multiple_questions
    THEN [tier |-> "pro", reason |-> <<"Complex HR query">>]
    ELSE [tier |-> "lite", reason |-> <<"Simple HR query">>]

\* lines 87-94
HrTier(f) ==
    IF f.word_count > ComplexThreshold(Str_hr) \/ f.has_multiple_questions
    THEN [tier |-> "pro", reason |-> <<"Complex HR query">>]
    ELSE [tier |-> "lite", reason |-> <<"Simple HR query">>]

\* lines 96-111
ComplexityScore(f, domain) ==
    B2I(f.word_count > ComplexThreshold(domain)) * 2
    + B2I(f.sentence_count > 3)
    + B2I(f.has_technical_terms)
    + B2I(f.has_multiple_questions)
    + B2I(f.has_conditional)

ScoredTier(f, domain) ==
    LET complexity_score == ComplexityScore(f, domain)
    IN IF complexity_score >= 3
       THEN [tier |-> "pro", reason |-> <<"High complexity score", complexity_score>>]
       ELSE [tier |-> "lite", reason |-> <<"Low complexity score", complexity_score>>]

\* (a tier that follows the number of samples the drift detector holds)
ModelTier_FollowsSamples(f, domain) ==
    IF \E d \in DOMAIN query_data : query_data[d] # <<>>
    THEN [tier |-> "pro", reason |-> <<"Default complexity">>]
    ELSE [tier |-> "lite", reason |-> <<"Default complexity">>]

\* lines 74-111: tier and reason
ModelTier(f, domain) ==
    IF domain = Str_legal THEN LegalTier(f)
    ELSE IF domain = Str_hr THEN HrTier(f)
    ELSE ScoredTier(f, domain)

AnalyzeComplexity(query, domain) ==
    LET t == ModelTier(FeaturesOf(query), domain)
    IN [model_tier |-> t.tier,
        model_id |-> IF t.tier = "pro" THEN "anthropic.claude-3-sonnet-20240229-v1:0"
                     ELSE "global.amazon.nova-2-lite-v1:0",
        reason |-> t.reason]


\* a caller calls analyze_complexity(query, domain) and has the decision
Classify(query, domain) ==
    /\ route_out' = [op |-> "classify", query |-> query, domain |-> domain,
                     decision |-> AnalyzeComplexity(query, domain)]
    /\ UNCHANGED first_call

\* the same, the call being the one the history keeps
ClassifyFirst(query, domain) ==
    /\ first_call = NoCall
    /\ route_out' = [op |-> "classify", query |-> query, domain |-> domain,
                     decision |-> AnalyzeComplexity(query, domain)]
    /\ first_call' = [call |-> route_out', samples |-> TotalSamples]

RouteInit ==
    /\ route_out = NoCall
    /\ first_call = NoCall

----
(* RAGService.query (src/api/services/rag_service.py) *)

\* embedding_service.generate_embedding(text): the provider gives a text the
\* same vector every time
EmbeddingOf(text) ==
    IF Len(text) = 1 THEN <<2, 1>> ELSE IF Len(text) = 3 THEN <<3, 2>> ELSE <<-1, 2>>

\* prompt_manager.get_prompt: each configured domain (legal, hr, general) has
\* the one active version v1; any other domain gets the general one
PromptVersionId(domain) ==
    IF domain \in {Str_legal, Str_hr} THEN domain \o <<"_", "v", "1">>
    ELSE Str_general \o <<"_", "v", "1">>

\* (the call accepted and the body of generate_response run with Bedrock
\* failing: line 46 returns the error as the text)
GenerateResponseCall_ErrorAsText(bound) ==
    [raised |-> FALSE, error |-> "", text |-> "Error invoking model: ClientError"]

\* llm_service.generate_response(system_prompt=..., prompt=..., model_id=...)
\* of line 148. Bound to the LLMService singleton, the call is against the
\* signature generate_response(self, prompt, system_prompt="") of
\* llm_service.py line 17: the keyword model_id is not accepted and the call
\* raises TypeError before the body runs. Bound to a stand-in that takes any
\* arguments (the Mock of tests/unit/test_rag_service.py), it returns the text
\* the stand-in was given.
GenerateResponseCall(bound) ==
    IF bound = "LLMService"
    THEN [raised |-> TRUE, error |-> "TypeError", text |-> ""]
    ELSE [raised |-> FALSE, error |-> "", text |-> "Test response from LLM"]

ErrorAnswer ==
    "I recently encountered an error while processing your request. Please try again later."

Raised(error, at) == [kind |-> "raised", error |-> error, at |-> at]

\* (the handler of lines 191-198 letting the exception go)
ErrorResult_Reraise(e) == Raised(e, "generate")

\* lines 191-198: except Exception as e, the result with the error as data
ErrorResult(e) ==
    [kind |-> "returned", answer |-> ErrorAnswer, cached |-> FALSE, error |-> e]

\* (the lookup's answer ignored: the query goes on after a hit)
AfterLookup_NoShortCircuit(r) == "route"

\* line 54, `if cached_response:`: a hit returns, a miss goes on to routing
AfterLookup(r) == IF r.hit THEN "done" ELSE "route"

QIdle == [pc |-> "idle"]

\* a request arrives: query(question, domain)
QStart(question, domain) ==
    /\ q = QIdle
    /\ TotalSamples < MaxSamples
    /\ q' = [pc |-> "record", question |-> question, domain |-> domain,
             trace |-> <<>>, query_embedding |-> <<>>, sources |-> <<>>,
             version_id |-> <<>>, response_text |-> "", result |-> [kind |-> "none"]]
    /\ UNCHANGED <<query_data, llm_service, routeVars, driftVars, vsVars, cacheVars>>

\* lines 36-41: drift_detector.record_query(question, domain or 'general'),
\* then 'all' becomes None
QRecord ==
    /\ q.pc = "record"
    /\ query_data' = RecordQuery(query_data, q.question, OrGeneral(q.domain), now)
    /\ q' = [q EXCEPT !.pc = "lookup",
                      !.domain = IF q.domain = Str_all THEN NoDomain ELSE q.domain,
                      !.trace = Append(@, "record")]
    /\ UNCHANGED <<llm_service, routeVars, driftVars, vsVars, cacheVars>>

\* lines 45-73: the embedding, cache_service.find_similar_response, and the
\* return of a hit. redis.keys raises ConnectionError when the server cannot
\* be reached; nothing between it and the caller of query catches it
QLookup ==
    /\ q.pc = "lookup"
    /\ LET emb == EmbeddingOf(q.question)
       IN IF ~redis_up
          THEN q' = [q EXCEPT !.pc = "done", !.trace = Append(@, "lookup"),
                              !.query_embedding = emb,
                              !.result = Raised("redis.ConnectionError", "lookup")]
          ELSE \E keys \in Perms(KeysMatching(OrGeneral(q.domain))) :
                 LET r == FindSimilarResponse(emb, OrGeneral(q.domain), keys)
                 IN q' = [q EXCEPT !.pc = AfterLookup(r),
                                   !.trace = Append(@, "lookup"),
                                   !.query_embedding = emb,
                                   !.result = IF r.hit
                                              THEN [kind |-> "returned",
                                                    answer |-> r.response,
                                                    cached |-> TRUE,
                                                    cache_similarity |-> r.similarity,
                                                    sources |-> <<>>,
                                                    domain |-> q.domain]
                                              ELSE @]
    /\ UNCHANGED <<query_data, llm_service, routeVars, driftVars, vsVars, cacheVars>>

\* lines 99-104: the first analyze_complexity; its result only makes a
\* model_id string that line 144 replaces
QRoute ==
    /\ q.pc = "route"
    /\ q' = [q EXCEPT !.pc = "search", !.trace = Append(@, "classify")]
    /\ UNCHANGED <<query_data, llm_service, routeVars, driftVars, vsVars, cacheVars>>

\* lines 106-122: hybrid_search(question, top_k=3, filter, alpha=0.7)
QSearch ==
    /\ q.pc = "search"
    /\ \E dist \in [Range(collection) -> Distances],
          lex \in [Range(collection) -> LexScores] :
         \E shortlist \in VectorResults(dist, 3 * 2, q.domain) :
           LET r == HybridOutcome(3, q.domain, 7, dist, lex, shortlist)
           IN /\ documents_cache' = r.documents_cache
              /\ bm25' = r.bm25
              /\ q' = [q EXCEPT !.pc = "prompt", !.trace = Append(@, "search"),
                                !.sources = r.out.final_ids]
    /\ UNCHANGED <<collection, vs_out, query_data, llm_service, routeVars, driftVars, cacheVars>>

\* lines 131-137: prompt_manager.get_prompt(domain or "general", ...)
QPrompt ==
    /\ q.pc = "prompt"
    /\ q' = [q EXCEPT !.pc = "generate", !.trace = Append(@, "prompt"),
                      !.version_id = PromptVersionId(OrGeneral(q.domain))]
    /\ UNCHANGED <<query_data, llm_service, routeVars, driftVars, vsVars, cacheVars>>

\* lines 140-198, the try block and its handler: the second
\* analyze_complexity, the generation, set_response, the metrics and the
\* experiment log, the result; any exception in the block (the call of
\* generate_response, set_response with Redis out of reach) gives the error
\* result of lines 191-198. The store is kept in cache_out together with the
\* `filters` of line 108 the answer was retrieved under.
QGenerate ==
    /\ q.pc = "generate"
    /\ LET routing_decision == AnalyzeComplexity(q.question, OrGeneral(q.domain))
           call == GenerateResponseCall(llm_service)
       IN IF call.raised
          THEN /\ q' = [q EXCEPT !.pc = "done",
                                 !.trace = @ \o <<"classify", "generate">>,
                                 !.result = ErrorResult(call.error)]
               /\ UNCHANGED <<redis, cache_out, invalidated>>
          ELSE IF ~redis_up
          THEN /\ q' = [q EXCEPT !.pc = "done",
                                 !.trace = @ \o <<"classify", "generate", "store">>,
                                 !.response_text = call.text,
                                 !.result = ErrorResult("redis.ConnectionError")]
               /\ UNCHANGED <<redis, cache_out, invalidated>>
          ELSE /\ redis' = AfterSetex(q.question, q.query_embedding, call.text,
                                      OrGeneral(q.domain))
               /\ invalidated' = invalidated \ {OrGeneral(q.domain)}
               /\ cache_out' = [op |-> "store", query |-> q.question,
                                query_embedding |-> q.query_embedding,
                                response |-> call.text, domain |-> OrGeneral(q.domain),
                                filters |-> q.domain]
               /\ q' = [q EXCEPT !.pc = "done",
                                 !.trace = @ \o <<"classify", "generate", "store", "log">>,
                                 !.response_text = call.text,
                                 !.result = [kind |-> "returned", answer |-> call.text,
                                             cached |-> FALSE,
                                             model_tier |-> routing_decision.model_tier,
                                             prompt_version |-> q.version_id,
                                             sources |-> q.sources,
                                             domain |-> q.domain]]
    /\ UNCHANGED <<redis_up, now, query_data, llm_service, routeVars, driftVars, vsVars>>

\* the caller has the result (or the exception)
QReturn ==
    /\ q.pc = "done"
    /\ q' = QIdle
    /\ UNCHANGED <<query_data, llm_service, routeVars, driftVars, vsVars, cacheVars>>

\* the Redis server goes away or comes back
RedisChange ==
    /\ redis_up' = ~redis_up
    /\ UNCHANGED <<redis, now, cache_out, invalidated>>

RagInit ==
    /\ query_data = <<>>
    /\ llm_service = "LLMService"
    /\ q = QIdle

----------------------------------------------------------------------------
(* The inputs of the calls *)

Domains == {Str_hr, Str_hrx}
Questions == {<<"w1">>, <<"w1", " ", "w2">>}
Queries == Questions
Embeddings == {<<2, 1>>, <<3, 2>>, <<-1, 2>>}
Responses == {"", "answer A", "answer B"}
RagDomains == {NoDomain, Str_all, Str_hr, Str_general}

----------------------------------------------------------------------------
(* SpecFusion: ingestion and hybrid searches on one VectorStore *)

InitFusion ==
    /\ collection \in {[i \in 1..n |-> i] : n \in 0..MaxChunks}
    /\ documents_cache = <<>>
    /\ bm25 = <<>>
    /\ vs_out = Idle
    /\ CacheInit
    /\ RagInit
    /\ RouteInit
    /\ DriftInit

Ingest ==
    /\ \E k \in 1..2 : AddDocuments(k)
    /\ UNCHANGED <<cacheVars, ragVars, routeVars, driftVars>>

Search ==
    /\ vs_out = Idle
    /\ \E top_k \in TopKs, filter \in Filters, alpha \in Alphas :
         \E dist \in [Range(collection) -> Distances],
            lex \in [Range(collection) -> LexScores] :
           HybridSearch(top_k, filter, alpha, dist, lex)
    /\ UNCHANGED <<cacheVars, ragVars, routeVars, driftVars>>

SearchDone ==
    /\ SearchReturn
    /\ UNCHANGED <<cacheVars, ragVars, routeVars, driftVars>>

NextFusion == Ingest \/ Search \/ SearchDone

SpecFusion == InitFusion /\ [][NextFusion]_vars

(* Threads inside add_documents and hybrid_search at the same time *)

InitIndexRace ==
    /\ VsInit
    /\ CacheInit
    /\ RagInit
    /\ RouteInit
    /\ drift_out = NoCall
    /\ th = [t \in 1..(MaxThreads + 1) |-> [pc |-> "idle"]]

NextIndexRace ==
    \E t \in DOMAIN th :
        \/ AddStep(t)
        \/ RebuildGet(t)
        \/ RebuildCache(t)
        \/ RebuildIndex(t)
        \/ SearchQuery(t)
        \/ SearchCheck(t)
        \/ SearchRecheck(t)
        \/ SearchScore(t)

SpecIndexRace == InitIndexRace /\ [][NextIndexRace]_vars

----------------------------------------------------------------------------
(* SpecCache: stores, lookups and invalidations on one CacheService, at one *)
(* time; SpecCacheTtl: the same with the time passing                       *)

InitCache ==
    /\ VsInit
    /\ CacheInit
    /\ RagInit
    /\ RouteInit
    /\ DriftInit

Store ==
    /\ \E query \in Queries, query_embedding \in Embeddings,
          response \in Responses, domain \in Domains :
         SetResponse(query, query_embedding, response, domain)
    /\ UNCHANGED <<vsVars, ragVars, routeVars, driftVars>>

Find ==
    /\ \E query_embedding \in Embeddings, domain \in Domains :
         Lookup(query_embedding, domain)
    /\ UNCHANGED <<vsVars, ragVars, routeVars, driftVars>>

Invalidate ==
    /\ \E domain \in Domains : InvalidateDomain(domain)
    /\ UNCHANGED <<vsVars, ragVars, routeVars, driftVars>>

NextCache == Store \/ Find \/ Invalidate

SpecCache == InitCache /\ [][NextCache]_vars

TtlQueries == {<<"w1">>}
TtlEmbeddings == {<<2, 1>>, <<-1, 2>>}
TtlResponses == {"answer A"}

StoreTtl ==
    /\ \E query \in TtlQueries, query_embedding \in TtlEmbeddings,
          response \in TtlResponses, domain \in Domains :
         SetResponse(query, query_embedding, response, domain)
    /\ UNCHANGED <<vsVars, ragVars, routeVars, driftVars>>

FindTtl ==
    /\ \E query_embedding \in TtlEmbeddings, domain \in Domains :
         Lookup(query_embedding, domain)
    /\ UNCHANGED <<vsVars, ragVars, routeVars, driftVars>>

Tick ==
    /\ Advance
    /\ UNCHANGED <<vsVars, ragVars, routeVars, driftVars>>

NextCacheTtl == StoreTtl \/ FindTtl \/ Invalidate \/ Tick

SpecCacheTtl == InitCache /\ [][NextCacheTtl]_vars

(* A domain holding more response keys than find_similar_response scans *)

\* ScanLimit + 1 responses stored under 'hr' one second apart, the n-th at
\* time n for the n-th query text; the `close`-th was stored with the
\* embedding the lookup will ask for, the others with a distant one
ManyResponses(close) ==
    [k \in {<<Str_hr, <<n>>>> : n \in 1..(ScanLimit + 1)} |->
        [query |-> k[2],
         query_embedding |-> IF k[2][1] = close THEN <<2, 1>> ELSE <<-1, 2>>,
         response |-> "answer A", domain |-> Str_hr,
         stored_at |-> k[2][1], expires_at |-> ResponseExpiry(k[2][1])]]

InitScan ==
    /\ VsInit
    /\ RagInit
    /\ RouteInit
    /\ DriftInit
    /\ redis_up = TRUE
    /\ now = ScanLimit + 1
    /\ cache_out = [op |-> "none"]
    /\ invalidated = {}
    /\ \E close \in 1..(ScanLimit + 1) : redis = ManyResponses(close)

\* find_similar_response when KEYS lists the keys in the order `keys` (the
\* server lists them in the order of its hash table)
LookupListed(query_embedding, domain, keys) ==
    /\ redis_up
    /\ cache_out.op = "none"
    /\ Len(keys) = Cardinality(KeysMatching(domain))
    /\ Range(keys) = KeysMatching(domain)
    /\ cache_out' = [op |-> "lookup", query_embedding |-> query_embedding,
                     domain |-> domain, after |-> [op |-> "other"],
                     result |-> FindSimilarResponse(query_embedding, domain, keys)]
    /\ UNCHANGED <<redis, now, invalidated, redis_up>>

\* the listings in the order of writing but for one key, which comes last
NextScan ==
    /\ \E last \in {1, 2, ScanLimit, ScanLimit + 1} :
         LookupListed(<<2, 1>>, Str_hr,
                      [i \in 1..(ScanLimit + 1) |->
                         <<Str_hr, <<IF i = ScanLimit + 1 THEN last
                                     ELSE IF i < last THEN i ELSE i + 1>>>>])
    /\ UNCHANGED <<vsVars, ragVars, routeVars, driftVars>>

SpecScan == InitScan /\ [][NextScan]_vars

----------------------------------------------------------------------------
(* SpecRag: queries through RAGService.query, the Redis server coming and  *)
(* going, and entries written to the cache between two queries             *)

InitRag ==
    /\ collection \in {<<>>, <<1, 2>>}
    /\ documents_cache = <<>>
    /\ bm25 = <<>>
    /\ vs_out = Idle
    /\ CacheInit
    /\ query_data = <<>>
    /\ llm_service \in {"LLMService", "Mock"}
    /\ q = QIdle
    /\ RouteInit
    /\ DriftInit

Arrive == \E question \in Questions, domain \in RagDomains : QStart(question, domain)

StoreBetween ==
    /\ q = QIdle
    /\ redis = <<>>
    /\ \E query \in Queries, domain \in {Str_general, Str_hr} :
         SetResponse(query, EmbeddingOf(query), "answer A", domain)
    /\ UNCHANGED <<vsVars, ragVars, routeVars, driftVars>>

Outage ==
    /\ RedisChange
    /\ UNCHANGED <<vsVars, ragVars, routeVars, driftVars>>

NextRag ==
    \/ Arrive
    \/ QRecord
    \/ QLookup
    \/ QRoute
    \/ QSearch
    \/ QPrompt
    \/ QGenerate
    \/ QReturn
    \/ StoreBetween
    \/ Outage

SpecRag == InitRag /\ [][NextRag]_vars

----------------------------------------------------------------------------
(* SpecRouter: calls of analyze_complexity over texts around the thresholds; *)
(* SpecRouterPure: calls of it with records of the drift detector between    *)

Str_history == <<"h", "i", "s", "t", "o", "r", "y">>

RouterDomains == {Str_legal, Str_hr, Str_engineering, Str_history, Str_general, Str_hrx}
ConfiguredDomains == {Str_legal, Str_hr, Str_engineering, Str_history, Str_general}

WordNumbers == {2, 18, 19, 20, 49, 50, 51, 74, 75, 76, 99, 100, 101}

\* n plain words with a blank between two
Words(n) == [i \in 1..(2 * n - 1) |-> IF i % 2 = 1 THEN "w1" ELSE " "]

RECURSIVE Repeat(_, _)
Repeat(s, n) == IF n = 0 THEN <<>> ELSE s \o Repeat(s, n - 1)

\* the text of n plain words, then a conditional word, a technical word,
\* `extra` more one-word sentences and `marks` question marks
RouterQuery(n, cond, tech, extra, marks) ==
    Words(n)
    \o (IF cond THEN <<" ", "if">> ELSE <<>>)
    \o (IF tech THEN <<" ", "statute">> ELSE <<>>)
    \o Repeat(<<".", " ", "w1">>, extra)
    \o Repeat(<<"?">>, marks)

RouterQueries ==
    {RouterQuery(n, cond, tech, extra, marks) :
        n \in WordNumbers, cond \in BOOLEAN, tech \in BOOLEAN,
        extra \in {0, 3}, marks \in {0, 1, 2}}

PureQueries ==
    {RouterQuery(n, cond, FALSE, 0, marks) :
        n \in {19, 51}, cond \in BOOLEAN, marks \in {0, 2}}

InitRouter ==
    /\ VsInit
    /\ CacheInit
    /\ RagInit
    /\ RouteInit
    /\ DriftInit

ClassifyAny ==
    /\ route_out = NoCall
    /\ \E query \in RouterQueries, domain \in RouterDomains : Classify(query, domain)
    /\ UNCHANGED <<vsVars, cacheVars, ragVars, driftVars>>

\* the caller takes the decision
ClassifyReturn ==
    /\ route_out # NoCall
    /\ route_out' = NoCall
    /\ UNCHANGED <<first_call, vsVars, cacheVars, ragVars, driftVars>>

NextRouter == ClassifyAny \/ ClassifyReturn

SpecRouter == InitRouter /\ [][NextRouter]_vars

ClassifyOnce ==
    /\ \E query \in PureQueries, domain \in {Str_legal, Str_hr, Str_general} :
         ClassifyFirst(query, domain)
    /\ UNCHANGED <<vsVars, cacheVars, ragVars, driftVars>>

ClassifyAgain ==
    /\ \E query \in PureQueries, domain \in {Str_legal, Str_hr, Str_general} :
         Classify(query, domain)
    /\ UNCHANGED <<vsVars, cacheVars, ragVars, driftVars>>

RecordBetween == DriftRecord(<<"w1">>, Str_general)

NextRouterPure == ClassifyOnce \/ ClassifyAgain \/ RecordBetween

SpecRouterPure == InitRouter /\ [][NextRouterPure]_vars

----------------------------------------------------------------------------
(* SpecDrift: records of the drift detector with the time passing *)

DriftQueries == {<<>>, <<" ">>, <<"w1">>, <<"w1", " ", "w2">>}
DriftDomains == {Str_general, Str_hr}

Record == \E query \in DriftQueries, domain \in DriftDomains : DriftRecord(query, domain)

NextDrift == Record \/ DriftAdvance

SpecDrift == InitRouter /\ [][NextDrift]_vars

(* Threads calling record_query at the same time *)

InitRecordRace ==
    /\ VsInit
    /\ CacheInit
    /\ RagInit
    /\ RouteInit
    /\ drift_out = NoCall
    /\ th = [t \in Threads |-> [pc |-> "idle"]]

NextRecordRace ==
    \E t \in Threads :
        \/ \E query \in DriftQueries, domain \in DriftDomains : RecordAppend(t, query, domain)
        \/ RecordFilter(t)
        \/ RecordAssign(t)

SpecRecordRace == InitRecordRace /\ [][NextRecordRace]_vars

(* detect_drift over windows of up to 40 samples *)

\* n samples recorded at time ts, of lengths pair[1], pair[2], pair[1], ...
Samples(n, ts, pair) == [i \in 1..n |-> <<ts, pair[2 - (i % 2)]>>]

\* the detector holds older samples recorded at one time and newer ones
\* recorded at a later time; times count from the time of the detect_drift
\* call, which is 0
InitDetect ==
    /\ VsInit
    /\ CacheInit
    /\ RouteInit
    /\ llm_service = "LLMService"
    /\ q = QIdle
    /\ drift_out = NoCall
    /\ th = <<>>
    /\ \E np \in {0, min_samples - 1, min_samples, 40},
          nc \in {min_samples - 1, min_samples, 40},
          tp \in {-14 * 86400 - 1, -14 * 86400, -10 * 86400, -7 * 86400 - 1},
          tc \in {-7 * 86400, -86400, 0},
          lp \in {<<2, 2>>, <<2, 4>>, <<15, 20>>},
          lc \in {<<2, 2>>, <<3, 3>>, <<15, 20>>} :
         query_data = (Str_hr :> (Samples(np, tp, lp) \o Samples(nc, tc, lc)))

NextDetect == \E domain \in DriftDomains : DetectDrift(domain)

SpecDetect == InitDetect /\ [][NextDetect]_vars

----------------------------------------------------------------------------
(* RetrievalFusion: the properties of hybrid_search (SpecFusion) *)

HybridDone == vs_out.path = "hybrid"

\* alpha * vector_similarity(c) + (1 - alpha) * lexical_score(c) for the
\* chunk c of the finished search, in the units of combined_scores
OwnFusedScore(c) ==
    vs_out.alpha * Similarity(vs_out.dist[c])
    + (10 - vs_out.alpha) * vs_out.lex[c] * SimScale

\* `ranking` is a ranking of `shortlist` by `key`, cut to top_k: no
\* duplicates, non-increasing keys, nothing left out that beats a member
RankedBy(ranking, shortlist, top_k, key) ==
    /\ Len(ranking) = Min(top_k, Len(shortlist))
    /\ Range(ranking) \subseteq Range(shortlist)
    /\ \A i, j \in 1..Len(ranking) :
         i < j => ranking[i] # ranking[j] /\ key[ranking[i]] >= key[ranking[j]]
    /\ \A c \in Range(shortlist) \ Range(ranking) :
         \A i \in 1..Len(ranking) : key[ranking[i]] >= key[c]

\* C1: every candidate c of the vector shortlist gets the fused score
\* alpha * vector_similarity(c) + (1 - alpha) * lexical_score(c), with the
\* lexical (BM25) score of that same chunk c
C1_FusedScoreIsOfSameChunk ==
    HybridDone =>
        \A c \in Range(vs_out.shortlist) : vs_out.combined[c] = OwnFusedScore(c)

\* C2: for alpha = 0 the ranking among the chunks of the shortlist is their
\* ranking by their own lexical score alone, and nothing outside the
\* shortlist is returned
C2_AlphaZeroRanksByOwnLexicalScore ==
    (HybridDone /\ vs_out.alpha = 0) =>
        RankedBy(vs_out.final_ids, vs_out.shortlist, vs_out.top_k, vs_out.lex)

\* C3: for alpha = 1 the ranking is the ranking of the vector shortlist by
\* the similarity 1/(1+distance) alone, whatever the lexical scores: the
\* first top_k of the shortlist in the vector index's order
C3_AlphaOneRanksBySimilarity ==
    (HybridDone /\ vs_out.alpha = 10) =>
        /\ vs_out.final_ids = Take(vs_out.shortlist, vs_out.top_k)
        /\ RankedBy(vs_out.final_ids, vs_out.shortlist, vs_out.top_k,
                    [c \in Range(vs_out.shortlist) |-> Similarity(vs_out.dist[c])])

\* an alpha = 1 search of two results where the lexical scores would have
\* ranked the two the other way round
C3_Witness ==
    /\ HybridDone
    /\ vs_out.alpha = 10
    /\ Len(vs_out.final_ids) = 2
    /\ vs_out.dist[vs_out.final_ids[1]] < vs_out.dist[vs_out.final_ids[2]]
    /\ vs_out.lex[vs_out.final_ids[1]] < vs_out.lex[vs_out.final_ids[2]]
    /\ vs_out.combined[vs_out.final_ids[1]] > vs_out.combined[vs_out.final_ids[2]]

\* C4: a search returns at most top_k chunks on every path (the path
\* without a lexical index too), each of them a member of the vector
\* shortlist of at most 2 * top_k chunks, and each of the filter's domain
\* when a filter is given
C4_AtMostTopKFromShortlistInDomain ==
    vs_out.path \in {"hybrid", "fallback"} =>
        /\ Len(vs_out.final_ids) <= vs_out.top_k
        /\ Len(vs_out.shortlist) <= 2 * vs_out.top_k
        /\ Range(vs_out.final_ids) \subseteq Range(vs_out.shortlist)
        /\ \A i, j \in 1..Len(vs_out.final_ids) :
             i < j => vs_out.final_ids[i] # vs_out.final_ids[j]
        /\ vs_out.filter # NoDomain =>
             \A c \in Range(vs_out.final_ids) : DomainOf(c) = vs_out.filter

\* a filtered search whose shortlist is longer than top_k, over a
\* collection that also holds a chunk of another domain
C4_Witness ==
    /\ HybridDone
    /\ vs_out.filter # NoDomain
    /\ Len(vs_out.shortlist) > vs_out.top_k
    /\ Len(vs_out.final_ids) = vs_out.top_k
    /\ \E c \in Range(collection) : DomainOf(c) # vs_out.filter

----------------------------------------------------------------------------
(* SemanticCache: the properties of CacheService (SpecCache, SpecCacheTtl) *)

LookupDone == cache_out.op = "lookup"

\* C5: a lookup hits if and only if the best cosine similarity between the
\* query embedding and the candidate entries (the keys the lookup listed) is
\* at least 0.95; a hit carries the response and the similarity of an entry
\* with that best similarity; candidates all orthogonal to the query miss
C5_HitIffBestSimilarityAtLeastThreshold ==
    LookupDone =>
        LET Candidates == KeysMatching(cache_out.domain)
            SimTo(k) == CosineSimilarity(cache_out.query_embedding,
                                         redis[k].query_embedding)
        IN /\ cache_out.result.hit <=> \E k \in Candidates : AtLeastThreshold(SimTo(k))
           /\ cache_out.result.hit =>
                \E k \in Candidates :
                    /\ \A j \in Candidates : ~SimGreater(SimTo(j), SimTo(k))
                    /\ cache_out.result.response = redis[k].response
                    /\ cache_out.result.similarity = SimTo(k)
           /\ (\A k \in Candidates : SimTo(k).dot = 0) => ~cache_out.result.hit

\* C6: a store immediately followed by a lookup with the same embedding and
\* domain hits, with the stored response and a similarity of at least 0.95,
\* whatever else the domain holds
C6_StoreThenLookupRoundTrip ==
    (/\ LookupDone
     /\ cache_out.after.op = "store"
     /\ cache_out.after.query_embedding = cache_out.query_embedding
     /\ cache_out.after.domain = cache_out.domain) =>
        /\ cache_out.result.hit
        /\ cache_out.result.response = cache_out.after.response
        /\ AtLeastThreshold(cache_out.result.similarity)

\* C7: a lookup never returns an entry more than response_ttl (one hour)
\* after the last time it was stored
C7_NeverReturnedPastTtl ==
    (LookupDone /\ cache_out.result.hit) =>
        now <= redis[cache_out.result.key].stored_at + response_ttl

\* a lookup that misses although an entry of its domain with its very
\* embedding was stored more than an hour before and not since
C7_Witness ==
    /\ LookupDone
    /\ ~cache_out.result.hit
    /\ \E k \in DOMAIN redis :
         /\ k[1] = cache_out.domain
         /\ redis[k].query_embedding = cache_out.query_embedding
         /\ redis[k].response # ""
         /\ now > redis[k].stored_at + response_ttl

\* C8: a lookup under a domain returns only a response stored under that
\* same domain
C8_HitIsOfLookupDomain ==
    (LookupDone /\ cache_out.result.hit) =>
        redis[cache_out.result.key].domain = cache_out.domain

\* C9: after invalidate(domain), every lookup under that domain misses
\* until a store under that domain
C9_MissAfterInvalidateUntilStore ==
    (LookupDone /\ cache_out.domain \in invalidated) => ~cache_out.result.hit

----------------------------------------------------------------------------
(* Orchestrator: the properties of RAGService.query (SpecRag) *)

\* C10: with the cache backend unreachable the lookup is a miss and raises
\* nothing to the caller: no query ends at the lookup step with an exception
\* when Redis cannot be reached, it goes on to routing
C10_UnreachableCacheIsAMiss ==
    (q.pc \notin {"idle", "record", "lookup"} /\ q.trace[Len(q.trace)] = "lookup") =>
        /\ q.result.kind # "raised"
        /\ ~q.result.kind = "returned" => q.pc = "route"

\* the steps of one query in the order the code takes them; the prompt is
\* built between search and generation, and the try block classifies again
StepOrder ==
    <<"record", "lookup", "classify", "search", "prompt", "classify", "generate",
      "store", "log">>

QueryDone == q.pc = "done"

\* the generation call came back with a text
Generated == q.pc = "done" /\ q.response_text # ""

\* C11: when the store fails after a successful generation the request is
\* not aborted and the caller still gets the generated answer
C11_StoreFailureKeepsAnswer ==
    (Generated /\ q.trace[Len(q.trace)] = "store") =>
        /\ q.result.kind = "returned"
        /\ q.result.answer = q.response_text

\* C12: the steps of a query run in the order record, lookup, classify,
\* search, generation, store; a hit returns the cached answer after record
\* and lookup, with no classify, search, generation or store
C12_StepOrderAndShortCircuit ==
    q.pc # "idle" =>
        /\ Len(q.trace) <= Len(StepOrder)
        /\ q.trace = SubSeq(StepOrder, 1, Len(q.trace))
        /\ (q.result.kind = "returned" /\ q.result.cached) =>
              /\ q.trace = <<"record", "lookup">>
              /\ q.pc = "done"

\* a hit: the sample of the query is in its domain's window, the answer is
\* the cached one, and only record and lookup ran
C12_Witness ==
    /\ QueryDone
    /\ q.result.kind = "returned"
    /\ q.result.cached
    /\ q.result.answer \in {"answer A", "Test response from LLM"}
    /\ q.trace = <<"record", "lookup">>
    /\ \E d \in DOMAIN query_data : query_data[d] # <<>>

\* C13: a miss followed by a successful generation gives the generated text
\* as answer with cached = false, the tier of the routing decision and the
\* prompt version, and exactly then the entry (question, embedding, text,
\* domain) is stored and the experiment log written
C13_MissThenGenerationStoresAndLogs ==
    /\ Generated =>
         /\ q.result.kind = "returned"
         /\ "error" \notin DOMAIN q.result
         /\ q.result.answer = q.response_text
         /\ q.result.cached = FALSE
         /\ q.result.model_tier
              = AnalyzeComplexity(q.question, OrGeneral(q.domain)).model_tier
         /\ q.result.prompt_version = PromptVersionId(OrGeneral(q.domain))
         /\ <<OrGeneral(q.domain), q.question>> \in LiveKeys
         /\ redis[<<OrGeneral(q.domain), q.question>>].response = q.response_text
         /\ redis[<<OrGeneral(q.domain), q.question>>].query_embedding
              = EmbeddingOf(q.question)
         /\ q.trace[Len(q.trace)] = "log"
    /\ (q.pc # "idle" /\ "log" \in Range(q.trace)) => Generated

\* C14: a generation failure never reaches the caller as an exception: the
\* caller gets a structured result that carries the failure as data
C14_GenerationFailureIsData ==
    (QueryDone /\ "generate" \in Range(q.trace) /\ q.response_text = "") =>
        /\ q.result.kind = "returned"
        /\ q.result.cached = FALSE
        /\ "error" \in DOMAIN q.result
        /\ q.result.error # ""

\* the call of generate_response has failed with TypeError, and the query
\* has ended with the error result
C14_Witness ==
    /\ QueryDone
    /\ q.trace = <<"record", "lookup", "classify", "search", "prompt", "classify", "generate">>
    /\ q.result.kind = "returned"
    /\ q.result.error = "TypeError"
    /\ q.result.answer = ErrorAnswer

----------------------------------------------------------------------------
(* ComplexityRouter: the properties of analyze_complexity (SpecRouter,      *)
(* SpecRouterPure)                                                          *)

Classified == route_out.op = "classify"

\* the features of the text of the finished call
CallFeatures == FeaturesOf(route_out.query)

C16_LegalRule ==
    (Classified /\ route_out.domain = Str_legal) =>
        /\ route_out.decision.model_tier \in {"lite", "pro"}
        /\ route_out.decision.model_tier = "lite"
             <=> (CallFeatures.word_count < 20 /\ ~CallFeatures.has_conditional)

\* a short legal text with conditional language, sent to pro
C16_Witness ==
    /\ Classified
    /\ route_out.domain = Str_legal
    /\ CallFeatures.word_count = 19
    /\ CallFeatures.has_conditional
    /\ ~CallFeatures.has_technical_terms
    /\ route_out.decision.model_tier = "pro"

\* C17: for domain hr the tier is pro exactly when word_count > 100 or the
\* text has more than one question mark, else lite, whatever the conditional
\* language, the technical terms and the sentence count
C17_HrRule ==
    (Classified /\ route_out.domain = Str_hr) =>
        /\ route_out.decision.model_tier \in {"lite", "pro"}
        /\ route_out.decision.model_tier = "pro"
             <=> (CallFeatures.word_count > 100 \/ CallFeatures.has_multiple_questions)

\* a short hr text with two question marks, sent to pro
C17_Witness ==
    /\ Classified
    /\ route_out.domain = Str_hr
    /\ CallFeatures.word_count <= 100
    /\ CallFeatures.has_multiple_questions
    /\ ~CallFeatures.has_conditional
    /\ route_out.decision.model_tier = "pro"

\* C18: for every other domain the tier is pro exactly when
\* 2*(word_count > threshold) + (sentence_count > 3) + technical terms
\* + multiple questions + conditional language >= 3, with threshold 50 and
\* 75 for engineering; an unknown domain decides as general does
C18_ScoreRule ==
    (Classified /\ route_out.domain \notin {Str_legal, Str_hr}) =>
        LET f == CallFeatures
            threshold == IF route_out.domain = Str_engineering THEN 75 ELSE 50
            score == 2 * B2I(f.word_count > threshold) + B2I(f.sentence_count > 3)
                     + B2I(f.has_technical_terms) + B2I(f.has_multiple_questions)
                     + B2I(f.has_conditional)
        IN /\ route_out.decision.model_tier \in {"lite", "pro"}
           /\ route_out.decision.model_tier = "pro" <=> score >= 3
           /\ route_out.domain \notin ConfiguredDomains =>
                route_out.decision = AnalyzeComplexity(route_out.query, Str_general)

\* an engineering text of more than 50 and at most 75 tokens with
\* conditional language: lite, where the default threshold would give pro
C18_Witness ==
    /\ Classified
    /\ route_out.domain = Str_engineering
    /\ CallFeatures.word_count > 50
    /\ CallFeatures.word_count <= 75
    /\ CallFeatures.has_conditional
    /\ ~CallFeatures.has_technical_terms
    /\ ~CallFeatures.has_multiple_questions
    /\ CallFeatures.sentence_count <= 3
    /\ route_out.decision.model_tier = "lite"

----------------------------------------------------------------------------
(* DriftMonitor: the properties of record_query (SpecDrift) *)

WindowOf(data, d) == IF d \in DOMAIN data THEN data[d] ELSE <<>>

RECURSIVE SumOfLengths(_)
SumOfLengths(w) == IF w = <<>> THEN 0 ELSE Head(w)[2] + SumOfLengths(Tail(w))

NoStaleSample ==
    \A d \in DOMAIN query_data :
        \A i \in 1..Len(query_data[d]) : query_data[d][i][1] >= now - 30 * 86400

\* C19: a record with an empty, missing or blank query changes nothing: the
\* window of the domain has the same size and the same mean afterwards
C19_BlankRecordIsNoOp ==
    [][\A query \in {<<>>, <<" ">>}, domain \in DriftDomains :
          DriftRecord(query, domain) =>
              /\ Len(WindowOf(query_data', domain)) = Len(WindowOf(query_data, domain))
              /\ SumOfLengths(WindowOf(query_data', domain))
                   = SumOfLengths(WindowOf(query_data, domain))]_vars

\* C20: when a record has completed, no window of any domain holds a
\* sample older than 30 days
C20_NoSampleOlderThanThirtyDays ==
    [][(\E query \in DriftQueries, domain \in DriftDomains : DriftRecord(query, domain))
          => NoStaleSample']_vars

(* C21: record calls made at the same time on one domain are atomic with  *)
(* respect to each other: once n calls with a non-empty query have        *)
(* returned, the window of the domain holds all n samples.                *)
C21_ConcurrentRecordsKeepAllSamples ==
    (\A t \in Threads : th[t].pc = "done") =>
        \A d \in DriftDomains :
            (IF d \in DOMAIN query_data THEN Len(query_data[d]) ELSE 0)
              = Cardinality({t \in Threads : th[t].domain = d /\ th[t].sample})


(* C22: a query that runs while ingestion rebuilds the lexical index reads *)
(* one complete index generation: it does not fail on an index that became *)
(* absent after the check, and the index it scores against is a corpus     *)
(* state a completed add produced, that is a non-empty prefix of the       *)
(* collection.                                                             *)
C22_QueryReadsOneCompleteGeneration ==
    \A t \in DOMAIN th :
        (th[t].pc = "done" /\ th[t].op = "search") =>
            /\ th[t].result.path # "raised"
            /\ th[t].result.path = "hybrid" =>
                   /\ th[t].result.index # <<>>
                   /\ th[t].result.index = Take(collection, Len(th[t].result.index))

DetectDone == drift_out # NoCall

(* C23: detect needs min_samples (30) samples in each window; with fewer  *)
(* in either it returns drift_detected false, the reason 'Insufficient    *)
(* data' and the two counts, without p_value or statistic, and does not   *)
(* raise.                                                                 *)
C23_TooFewSamplesIsInsufficientData ==
    (DetectDone /\ (Len(drift_out.current) < min_samples \/ Len(drift_out.previous) < min_samples)) =>
        drift_out.result = [drift_detected |-> FALSE, reason |-> "Insufficient data",
                            current_samples |-> Len(drift_out.current),
                            previous_samples |-> Len(drift_out.previous)]

C23_Witness ==
    /\ DetectDone
    /\ Len(drift_out.current) >= min_samples
    /\ Len(drift_out.previous) = min_samples - 1
    /\ drift_out.result.reason = "Insufficient data"

Separated(previous, current) ==
    \A i \in 1..Len(previous), j \in 1..Len(current) : previous[i] < current[j]

(* C24: with 30 samples or more in both windows, drift_detected is        *)
(* p_value < 0.05 of the two-sample Kolmogorov-Smirnov test; when every   *)
(* length of the previous window is smaller than every length of the     *)
(* current one, it is true.                                              *)
C24_DriftIsPValueBelowAlpha ==
    (DetectDone /\ Len(drift_out.current) >= min_samples /\ Len(drift_out.previous) >= min_samples) =>
        /\ "p_value" \in DOMAIN drift_out.result
        /\ drift_out.result.drift_detected = drift_out.result.p_value.below_alpha
        /\ drift_out.result.p_value.below_alpha
              \in PValueBelowAlpha(drift_out.current, drift_out.previous)
        /\ Separated(drift_out.previous, drift_out.current) =>
              drift_out.result.drift_detected

C24_Witness ==
    /\ DetectDone
    /\ Len(drift_out.current) = 40
    /\ Len(drift_out.previous) = 40
    /\ Separated(drift_out.previous, drift_out.current)
    /\ drift_out.result.drift_detected

(* C27: detect changes no window of any domain, a never recorded domain   *)
(* included, and no sample is in both the current and the previous window. *)
C27_DetectMutatesNothingWindowsDisjoint ==
    DetectDone =>
        /\ query_data = drift_out.before
        /\ \A d \in DOMAIN query_data :
              CurrentIdx(query_data[d], now) \cap PreviousIdx(query_data[d], now) = {}

C27_Witness ==
    /\ DetectDone
    /\ drift_out.domain \notin DOMAIN drift_out.before
    /\ \E d \in DOMAIN query_data :
          /\ CurrentIdx(query_data[d], now) # {}
          /\ PreviousIdx(query_data[d], now) # {}

(* C25: search returns the chunks in descending order of fused score, and *)
(* chunks of equal fused score in ascending order of chunk id.            *)
C25_DescendingScoreTiesByAscendingId ==
    (HybridDone /\ vs_out.path = "hybrid") =>
        \A i, j \in 1..Len(vs_out.final_ids) :
            i < j =>
                \/ vs_out.combined[vs_out.final_ids[i]] > vs_out.combined[vs_out.final_ids[j]]
                \/ /\ vs_out.combined[vs_out.final_ids[i]] = vs_out.combined[vs_out.final_ids[j]]
                   /\ vs_out.final_ids[i] < vs_out.final_ids[j]

\* the ScanLimit most recently written response entries of a domain
MostRecent(domain) ==
    LET matching == KeysMatching(domain)
    IN {k \in matching :
          Cardinality({j \in matching : redis[j].stored_at > redis[k].stored_at})
            < ScanLimit}

(* C26: in a domain of more than 100 entries a lookup considers exactly   *)
(* the 100 most recently written ones: a matching entry among them is     *)
(* found, and no older entry is returned.                                 *)
C26_LookupScansTheMostRecentHundred ==
    (LookupDone /\ Cardinality(KeysMatching(cache_out.domain)) > ScanLimit) =>
        /\ (\E k \in MostRecent(cache_out.domain) :
               AtLeastThreshold(CosineSimilarity(cache_out.query_embedding,
                                                 redis[k].query_embedding)))
              => cache_out.result.hit
        /\ cache_out.result.hit => cache_out.result.key \in MostRecent(cache_out.domain)

(* C28: invalidate(domain) removes only the response entries of that     *)
(* domain: every response entry of another domain, also of one whose name *)
(* starts with the invalidated name, is the same afterwards.             *)
C28_InvalidateLeavesOtherDomains ==
    [][\A domain \in Domains :
          InvalidateDomain(domain) =>
              \A k \in LiveKeys :
                  k[1] # domain => (k \in DOMAIN redis' /\ redis'[k] = redis[k])]_vars

\* the texts that report a failure: the one generate_response returns
\* (llm_service.py line 46) and the answer of the error result
ErrorTexts == {ErrorAnswer, "Error invoking model: ClientError"}

\* the generation of the finished query failed
GenerationFailed ==
    /\ QueryDone
    /\ q.result.kind = "returned"
    /\ "error" \in DOMAIN q.result
    /\ q.trace[Len(q.trace)] = "generate"

C30_HitHasTheScopeOfItsAnswer ==
    (/\ QueryDone
     /\ q.result.kind = "returned"
     /\ q.result.cached
     /\ cache_out.op = "store"
     /\ "filters" \in DOMAIN cache_out
     /\ KeysMatching(OrGeneral(q.domain)) = {<<cache_out.domain, cache_out.query>>})
        => q.domain = cache_out.filters

====
